---- MODULE Spec2Model ----
(***************************************************************************)
(* Model of the FastAPI authentication service: the /auth/signup and       *)
(* /auth/login handlers (app/routes/auth_routes.py) and the controller     *)
(* functions they call (app/controllers/auth_controller.py), run by        *)
(* concurrent request workers against one shared users table.              *)
(*                                                                         *)
(* Strings are sequences of one-character strings.  A bcrypt hash is the   *)
(* three-part string  ident $ salt $ checksum ; the checksum is a symbolic *)
(* term of the salt and the key, the key being the first 72 bytes of the   *)
(* password.                                                               *)
(***************************************************************************)
EXTENDS Integers, Sequences, FiniteSets

VARIABLES store, pc, req, found, now, resp

vars == <<store, pc, req, found, now, resp>>

(* ------------------------------ bounds -------------------------------- *)

\* Number of request workers that handle one request each.
NumProcs == 2

\* The clock readings a token can be issued at are 0..MaxClock (seconds).
MaxClock == 1

Procs == 1..NumProcs

Times == 0..MaxClock

(* ------------------------------ inputs -------------------------------- *)

\* bcrypt uses at most the first 72 bytes of the password.
BCRYPT_MAX_BYTES == 72

Pw72 == [i \in 1..BCRYPT_MAX_BYTES |-> "x"]

Pw73 == Pw72 \o <<"y">>

Usernames == {<<>>, <<"b", "o", "b">>}

Emails == {<<"b", "o", "b">>, <<"b", "@", "x">>}

Passwords == {<<>>, Pw72, Pw73}

\* The salts bcrypt can draw for one hash.
Salts == {"s1", "s2"}

(* ------------------------- password hashing --------------------------- *)

Min(a, b) == IF a <= b THEN a ELSE b

\* The key bcrypt derives from the password: its first 72 bytes.
BcryptKey(password) == SubSeq(password, 1, Min(Len(password), BCRYPT_MAX_BYTES))

BcryptChecksum(salt, password) == [salt |-> salt, key |-> BcryptKey(password)]

\* Mutation: the password is stored as it came.
get_password_hash_plain(password, salt) == password

\* pwd_context.hash(password) with the salt drawn for this call.
get_password_hash(password, salt) == <<"$2b$", salt, BcryptChecksum(salt, password)>>

\* Whether the CryptContext identifies the string as a bcrypt hash.
IsBcryptHash(h) == Len(h) = 3 /\ h[1] = "$2b$"

\* Mutation: the checksum comparison is left out.
verify_password_any(plain_password, hashed_password) == IsBcryptHash(hashed_password)

\* pwd_context.verify(plain, hashed): re-hash with the salt embedded in hashed.
verify_password(plain_password, hashed_password) ==
    /\ IsBcryptHash(hashed_password)
    /\ get_password_hash(plain_password, hashed_password[2]) = hashed_password

(* ---------------------------- token issuer ---------------------------- *)

ACCESS_TOKEN_EXPIRE_MINUTES == 30

\* timedelta(minutes = m), in seconds.
timedelta_minutes(m) == 60 * m

\* create_access_token(data, expires_delta) called at clock reading t.
create_access_token(data, expires_delta, t) ==
    [sub |-> data.sub, iat |-> t, exp |-> t + expires_delta, alg |-> "HS256"]

(* --------------------------- credential store ------------------------- *)

User(username, email, password) ==
    [username |-> username, email |-> email, password |-> password]

\* Mutation: only the username column is unique.
UniqueViolation_usernameOnly(table, user) ==
    \E r \in table : r.username = user.username

\* The users table's unique constraints on username and on email.
UniqueViolation(table, user) ==
    \E r \in table : r.username = user.username \/ r.email = user.email

\* Mutation: the pre-check filters on the username alone.
QueryByEmailOrUsername_usernameOnly(table, email, username) ==
    {r \in table : r.username = username}

\* db.query(User).filter((User.email == email) | (User.username == username))
QueryByEmailOrUsername(table, email, username) ==
    {r \in table : r.email = email \/ r.username = username}

\* db.query(User).filter(User.username == username)
QueryByUsername(table, username) == {r \in table : r.username = username}

(* ------------------------------ responses ----------------------------- *)

NoReq == [op |-> "none"]

NoResp == [status |-> 0]

HTTPException(status_code, detail) ==
    [status |-> status_code, body |-> [detail |-> detail]]

DuplicateResponse == HTTPException(400, "Username or Email already registered")

InvalidCredentialsResponse == HTTPException(401, "Invalid credentials")

\* What the framework answers when the handler raises anything else.
ServerErrorResponse == HTTPException(500, "Internal Server Error")

SignupOk == [status |-> 200, body |-> [msg |-> "User created successfully"]]

LoginOk(token) ==
    [status |-> 200, body |-> [access_token |-> token, token_type |-> "bearer"]]

(* ------------------------------- state -------------------------------- *)

\* store: the rows of the users table.
\* pc[p]: where worker p stands in its request.
\* req[p]: the request payload worker p was given.
\* found[p]: what .first() returned to worker p (no row, or one row).
\* now[p]: the clock reading at which worker p issued a token (-1: none).
\* resp[p]: the response worker p sent.

NoTime == 0 - 1

Init ==
    /\ store = {}
    /\ pc = [p \in Procs |-> "idle"]
    /\ req = [p \in Procs |-> NoReq]
    /\ found = [p \in Procs |-> {}]
    /\ now = [p \in Procs |-> NoTime]
    /\ resp = [p \in Procs |-> NoResp]

\* .first(): no row when the query matches none, else one of the matching rows.
First(rows) == IF rows = {} THEN {{}} ELSE {{r} : r \in rows}

\* signup_user, lines 19-21: the duplicate pre-check.
SignupCheck(p, username, email, password) ==
    /\ pc[p] = "idle"
    /\ req' = [req EXCEPT ![p] = [op |-> "signup", username |-> username,
                                  email |-> email, password |-> password]]
    /\ \E existing_user \in First(QueryByEmailOrUsername(store, email, username)) :
          /\ found' = [found EXCEPT ![p] = existing_user]
          /\ IF existing_user # {}
               THEN /\ pc' = [pc EXCEPT ![p] = "done"]
                    /\ resp' = [resp EXCEPT ![p] = DuplicateResponse]
               ELSE /\ pc' = [pc EXCEPT ![p] = "checked"]
                    /\ resp' = resp
    /\ UNCHANGED <<store, now>>

\* Mutation: the commit replaces the table's rows by the new one.
Insert_overwrite(table, user) == {user}

\* The rows of the table after db.add(user); db.commit() went through.
Insert(table, user) == table \cup {user}

\* signup_user, lines 23-27: hash, add, commit, acknowledge.  A commit the
\* unique constraints refuse raises IntegrityError, which nothing catches.
SignupCommit(p, salt) ==
    /\ pc[p] = "checked"
    /\ LET user == User(req[p].username, req[p].email,
                        get_password_hash(req[p].password, salt))
       IN IF UniqueViolation(store, user)
            THEN /\ store' = store
                 /\ resp' = [resp EXCEPT ![p] = ServerErrorResponse]
            ELSE /\ store' = Insert(store, user)
                 /\ resp' = [resp EXCEPT ![p] = SignupOk]
    /\ pc' = [pc EXCEPT ![p] = "done"]
    /\ UNCHANGED <<req, found, now>>

\* Mutation: the lifetime is passed as seconds.
LoginExpiresDelta_seconds == ACCESS_TOKEN_EXPIRE_MINUTES

\* timedelta(minutes=settings.ACCESS_TOKEN_EXPIRE_MINUTES), line 36.
LoginExpiresDelta == timedelta_minutes(ACCESS_TOKEN_EXPIRE_MINUTES)

\* Mutation: an unknown username is answered with its own error.
LoginResponse_userNotFound(user, password, t) ==
    IF user = {}
      THEN HTTPException(404, "User not found")
      ELSE IF \E u \in user : ~verify_password(password, u.password)
        THEN InvalidCredentialsResponse
        ELSE LET row == CHOOSE r \in user : TRUE
             IN LoginOk(create_access_token([sub |-> row.username],
                                            LoginExpiresDelta, t))

\* login_user, lines 31-38: the response once .first() returned `user`
\* (no row, or one row), the token being issued at clock reading t.
LoginResponse(user, password, t) ==
    IF user = {} \/ \E u \in user : ~verify_password(password, u.password)
      THEN InvalidCredentialsResponse
      ELSE LET row == CHOOSE r \in user : TRUE
           IN LoginOk(create_access_token([sub |-> row.username],
                                          LoginExpiresDelta, t))

\* login_user, lines 30-38, reading the clock at t when it issues a token.
Login(p, username, password, t) ==
    /\ pc[p] = "idle"
    /\ req' = [req EXCEPT ![p] = [op |-> "login", username |-> username,
                                  password |-> password]]
    /\ \E user \in First(QueryByUsername(store, username)) :
          /\ found' = [found EXCEPT ![p] = user]
          /\ resp' = [resp EXCEPT ![p] = LoginResponse(user, password, t)]
          /\ now' = [now EXCEPT ![p] =
                        IF LoginResponse(user, password, t).status = 200
                          THEN t ELSE NoTime]
    /\ pc' = [pc EXCEPT ![p] = "done"]
    /\ store' = store

Next ==
    \E p \in Procs :
        \/ \E u \in Usernames, e \in Emails, pw \in Passwords : SignupCheck(p, u, e, pw)
        \/ \E s \in Salts : SignupCommit(p, s)
        \/ \E u \in Usernames, pw \in Passwords, t \in Times : Login(p, u, pw, t)

Spec == Init /\ [][Next]_vars

(* ------------------------------ properties ---------------------------- *)

IsSignup(p) == req[p].op = "signup"

IsLogin(p) == req[p].op = "login"

\* Worker p takes a signup request in this step.
SignupStarts(p) == pc[p] = "idle" /\ req'[p].op = "signup"

\* Worker p handles a login request in this step.
LoginRuns(p) == pc[p] = "idle" /\ req'[p].op = "login"

\* The stored hash is a hash of the password under one of the salts.
Verifies(password, hash) == \E s \in Salts : hash = get_password_hash(password, s)

EmailLike(email) == \E i \in 1..Len(email) : email[i] = "@"

ShapeInvalid(r) == r.username = <<>> \/ ~EmailLike(r.email) \/ r.password = <<>>

\* C1: when every signup so far carries the same username and each of them
\* passed the duplicate pre-check (they raced against a store without that
\* username), then once they have all answered exactly one answered with the
\* success acknowledgment and every other one with the 400 duplicate failure.
C1_ExactlyOneSucceedsRestDuplicate ==
    LET S == {p \in Procs : IsSignup(p)}
    IN (/\ S # {}
        /\ \A p \in S : pc[p] = "done" /\ found[p] = {}
        /\ \A p, q \in S : req[p].username = req[q].username)
       => /\ Cardinality({p \in S : resp[p] = SignupOk}) = 1
          /\ \A p \in S : resp[p] # SignupOk => resp[p] = DuplicateResponse

\* C2: no two stored User records have the same username, and no two have
\* the same email.
C2_UniqueUsernameAndEmail ==
    \A r1, r2 \in store :
        r1 # r2 => r1.username # r2.username /\ r1.email # r2.email

\* A signup raced past the pre-check and was refused by the table's constraint.
C2_Witness ==
    /\ Cardinality(store) = 1
    /\ \E p \in Procs : IsSignup(p) /\ resp[p] = ServerErrorResponse

\* C3: a signup taken when the store holds a user with the same username or
\* the same email answers with the 400 duplicate failure and leaves the store
\* as it was.
C3_DuplicateSignupRejected ==
    [][\A p \in Procs :
          (/\ SignupStarts(p)
           /\ \E r \in store : \/ r.username = req'[p].username
                               \/ r.email = req'[p].email)
          => /\ pc'[p] = "done"
             /\ resp'[p] = DuplicateResponse
             /\ store' = store]_vars

\* A signup was refused for its email alone: the row found has another username.
C3_Witness ==
    \E p \in Procs :
        /\ IsSignup(p) /\ pc[p] = "done" /\ resp[p] = DuplicateResponse
        /\ \E r \in found[p] : r.username # req[p].username /\ r.email = req[p].email
        /\ store # {}

\* Worker p ran a login for a username the store did not hold.
LoginUserAbsent(p) == IsLogin(p) /\ pc[p] = "done" /\ found[p] = {}

\* Worker p ran a login for a stored username with a password that does not
\* verify against the stored hash.
LoginPasswordMismatch(p) ==
    /\ IsLogin(p) /\ pc[p] = "done" /\ found[p] # {}
    /\ \A r \in found[p] : ~Verifies(req[p].password, r.password)

\* C4: a login for an unknown username and a login with a wrong password for
\* a known username get the same response: the 401 status and the same
\* message, whichever step of the login refused it.
C4_LoginFailuresIndistinguishable ==
    /\ [](\A p, q \in Procs :
            (LoginUserAbsent(p) \/ LoginPasswordMismatch(p))
            /\ (LoginUserAbsent(q) \/ LoginPasswordMismatch(q))
            => resp[p] = resp[q])
    /\ [][\A p \in Procs :
            (LoginRuns(p) /\ (LoginUserAbsent(p)' \/ LoginPasswordMismatch(p)'))
            => /\ resp'[p].status = 401
               /\ resp'[p] = HTTPException(401, "Invalid credentials")]_vars

\* A login with a wrong password for a stored user was refused.
C4_Witness ==
    \E p \in Procs : LoginPasswordMismatch(p) /\ resp[p].status = 401

\* C5: a login answers with a token exactly when the store holds a user with
\* the username whose stored hash the password verifies against; the token's
\* subject is then that user's username and the token type is "bearer"; in
\* every other case it answers with the 401 failure and no token.
C5_LoginTokenIffVerified ==
    [][\A p \in Procs :
          LoginRuns(p) =>
            LET rows == {r \in store : r.username = req'[p].username}
                ok == \E r \in rows : Verifies(req'[p].password, r.password)
            IN IF ok
                 THEN /\ resp'[p].status = 200
                      /\ resp'[p].body.token_type = "bearer"
                      /\ \E r \in rows : resp'[p].body.access_token.sub = r.username
                      /\ resp'[p].body.access_token.sub = req'[p].username
                 ELSE resp'[p] = InvalidCredentialsResponse]_vars

\* A login was answered with a bearer token for a stored user.
C5_Witness ==
    \E p \in Procs :
        /\ IsLogin(p) /\ pc[p] = "done" /\ resp[p].status = 200
        /\ resp[p].body.token_type = "bearer"
        /\ \E r \in store : r.username = resp[p].body.access_token.sub

\* C6: every token a login issues carries an expiry equal to the clock reading
\* at issuance plus ACCESS_TOKEN_EXPIRE_MINUTES minutes.
C6_TokenExpiry ==
    \A p \in Procs :
        (IsLogin(p) /\ pc[p] = "done" /\ resp[p].status = 200)
        => /\ now[p] \in Times
           /\ resp[p].body.access_token.iat = now[p]
           /\ resp[p].body.access_token.exp = now[p] + 60 * ACCESS_TOKEN_EXPIRE_MINUTES

\* A token was issued at a clock reading other than 0.
C6_Witness ==
    \E p \in Procs :
        /\ IsLogin(p) /\ pc[p] = "done" /\ resp[p].status = 200
        /\ now[p] = MaxClock /\ resp[p].body.access_token.exp > now[p]

\* C7: a signup whose username is empty, whose email is not email-like or
\* whose password is empty is answered as invalid input (the framework's 422),
\* and no User record is created for it.
C7_InvalidShapeRejected ==
    \A p \in Procs :
        (IsSignup(p) /\ pc[p] = "done" /\ ShapeInvalid(req[p]))
        => /\ resp[p].status = 422
           /\ ~\E r \in store : r.username = req[p].username /\ r.email = req[p].email

\* C8: once signup(u, e, p) has answered with success, a login(u, p) gets a
\* token whose subject is u, and a login(u, q) with q different from p gets
\* the 401 failure.
C8_LoginAfterSignup ==
    [][\A p, s \in Procs :
          (/\ IsSignup(s) /\ pc[s] = "done" /\ resp[s] = SignupOk
           /\ LoginRuns(p) /\ req'[p].username = req[s].username)
          => IF req'[p].password = req[s].password
               THEN /\ resp'[p].status = 200
                    /\ resp'[p].body.access_token.sub = req[s].username
               ELSE resp'[p] = InvalidCredentialsResponse]_vars

\* C9: the password of every stored User record is the hasher's output for
\* the password of the signup that created it and is not a plaintext password;
\* a successful signup answers with the fixed acknowledgment.
C9_StoredPasswordIsHash ==
    /\ \A r \in store :
          /\ \A pw \in Passwords : r.password # pw
          /\ \E p \in Procs :
                /\ IsSignup(p) /\ pc[p] = "done"
                /\ r.username = req[p].username /\ r.email = req[p].email
                /\ Verifies(req[p].password, r.password)
                /\ r.password # req[p].password
                /\ resp[p].status = 200
    /\ \A p \in Procs :
          (IsSignup(p) /\ pc[p] = "done" /\ resp[p].status = 200)
          => /\ resp[p].body = [msg |-> "User created successfully"]
             /\ \E r \in store : r.username = req[p].username

\* A signup with a non-empty password succeeded and its row is stored.
C9_Witness ==
    \E p \in Procs, r \in store :
        /\ IsSignup(p) /\ resp[p] = SignupOk /\ req[p].password = Pw73
        /\ r.username = req[p].username /\ r.password[1] = "$2b$"

\* C10: a login leaves the store as it was; the store changes only in the
\* step in which a signup succeeds, and then by exactly one new record with
\* that signup's username and email, every earlier record staying as it was.
C10_FrameEffect ==
    [][/\ \A p \in Procs : LoginRuns(p) => store' = store
       /\ store' # store =>
            \E p \in Procs :
                /\ IsSignup(p) /\ pc[p] = "checked" /\ pc'[p] = "done"
                /\ resp'[p] = SignupOk
                /\ store \subseteq store'
                /\ Cardinality(store') = Cardinality(store) + 1
                /\ \A r \in store' \ store :
                      r.username = req[p].username /\ r.email = req[p].email
       /\ \A p \in Procs :
            (pc[p] = "checked" /\ resp'[p] = SignupOk) => store' # store]_vars

\* A signup added its record and a login then ran against the store.
C10_Witness ==
    \E p, q \in Procs :
        /\ IsSignup(p) /\ resp[p] = SignupOk
        /\ IsLogin(q) /\ pc[q] = "done" /\ found[q] # {}
        /\ Cardinality(store) = 1

====
